---------------------------- MODULE Spec2Model ----------------------------
(***************************************************************************)
(* A model of colored_glog.py: the glog-style formatter (format_message,   *)
(* GlogFormatter.format, GLOG_PREFIX_REGEX), the root logger's threshold    *)
(* (setLevel and the severity entry points) and the check helpers           *)
(* (check_failed, check, check_eq, ...).                                    *)
(*                                                                         *)
(* Text is a sequence of one-character strings, so that formatting,         *)
(* counting and matching work on characters.  "ESC" and "TAB" stand for     *)
(* the escape and tabulator characters.                                     *)
(***************************************************************************)
EXTENDS Integers, Sequences, FiniteSets, TLC

VARIABLES
    level,      \* logger.level: the root logger's threshold
    last,       \* the most recent call of the logging / check interface
    trace,      \* what that call did, in order: records handled, then its end
    record,     \* the LogRecord handed to the formatter
    result,     \* the outcome of the most recent formatter operation
    parsed      \* the outcome of matching GLOG_PREFIX_REGEX against a line

vars == <<level, last, trace, record, result, parsed>>

---------------------------------------------------------------------------
(* Bounds of the model.                                                    *)

\* Call-stack depths of the code that invokes a check: 1..MaxDepth.
MaxDepth == 2
\* Integer operands of the checks: 0..MaxVal.
MaxVal == 1

---------------------------------------------------------------------------
(* Program constants.                                                      *)

DEBUG == 10
INFO == 20
WARN == 30
ERROR == 40
FATAL == 50
\* The level of a handler made by logging.StreamHandler() and never changed.
NOTSET == 0

Levels == {DEBUG, INFO, WARN, ERROR, FATAL}

---------------------------------------------------------------------------
(* Characters and decimal text.                                            *)

Digits == <<"0", "1", "2", "3", "4", "5", "6", "7", "8", "9">>

DigitSet == {Digits[i] : i \in 1..10}

LetterSet ==
    {"a", "b", "c", "d", "e", "f", "g", "h", "i", "j", "k", "l", "m",
     "n", "o", "p", "q", "r", "s", "t", "u", "v", "w", "x", "y", "z",
     "A", "B", "C", "D", "E", "F", "G", "H", "I", "J", "K", "L", "M",
     "N", "O", "P", "Q", "R", "S", "T", "U", "V", "W", "X", "Y", "Z"}

\* \s of the re module, over the characters of the model.
SpaceSet == {" ", "TAB"}

\* \w of the re module.
WordSet == LetterSet \cup DigitSet \cup {"_"}

RECURSIVE DecNat(_)
\* The decimal digits of a natural number, as "%d" writes them.
DecNat(n) ==
    IF n < 10 THEN <<Digits[n + 1]>>
    ELSE DecNat(n \div 10) \o <<Digits[(n % 10) + 1]>>

\* "%d" % n
Dec(n) == IF n < 0 THEN <<"-">> \o DecNat(0 - n) ELSE DecNat(n)

RECURSIVE Zeros(_)
Zeros(k) == IF k <= 0 THEN <<>> ELSE <<"0">> \o Zeros(k - 1)

\* "%0<w>d" % n: zero padding to a minimum width, the sign first.
PadDec(w, n) ==
    IF n < 0
    THEN <<"-">> \o Zeros(w - 1 - Len(DecNat(0 - n))) \o DecNat(0 - n)
    ELSE Zeros(w - Len(DecNat(n))) \o DecNat(n)

RECURSIVE CountChar(_, _)
\* str.count(c) for a one-character c.
CountChar(s, c) ==
    IF s = <<>> THEN 0
    ELSE (IF Head(s) = c THEN 1 ELSE 0) + CountChar(Tail(s), c)

RECURSIVE LastIndexOf(_, _, _)
\* The greatest index i <= n with s[i] = c, or 0.
LastIndexOf(s, c, n) ==
    IF n = 0 THEN 0
    ELSE IF s[n] = c THEN n ELSE LastIndexOf(s, c, n - 1)

\* os.path.basename (posix): what follows the last "/".
basename(p) == SubSeq(p, LastIndexOf(p, "/", Len(p)) + 1, Len(p))

---------------------------------------------------------------------------
(* Python values: integers, text and None.                                 *)

None == [t |-> "none", i |-> 0, s |-> <<>>]
IntV(n) == [t |-> "int", i |-> n, s |-> <<>>]
StrV(x) == [t |-> "str", i |-> 0, s |-> x]

\* str(v)
str(v) ==
    CASE v.t = "int" -> Dec(v.i)
      [] v.t = "str" -> v.s
      [] v.t = "map" -> v.s
      [] OTHER -> <<"N", "o", "n", "e">>

\* repr(v): text is quoted.
repr(v) == IF v.t = "str" THEN <<"'">> \o v.s \o <<"'">> ELSE str(v)

\* bool(v): the truth value `if not condition` tests.
Truthy(v) ==
    CASE v.t = "int" -> v.i # 0
      [] v.t = "str" -> v.s # <<>>
      [] OTHER -> FALSE

(* The right operand of %: a tuple of values, a mapping (a sequence of      *)
(* <<key, value>> pairs in insertion order) or a single value that is       *)
(* neither (None in this program).                                          *)
Tuple(items) == [kind |-> "tuple", items |-> items, pairs |-> <<>>]
Mapping(pairs) == [kind |-> "dict", items |-> <<>>, pairs |-> pairs]
Single(v) == [kind |-> "single", items |-> <<v>>, pairs |-> <<>>]

HasKey(pairs, k) == \E j \in 1..Len(pairs) : pairs[j][1] = k

GetItem(pairs, k) ==
    pairs[CHOOSE j \in 1..Len(pairs) : pairs[j][1] = k][2]

RECURSIVE ReprPairs(_)
ReprPairs(pairs) ==
    IF pairs = <<>> THEN <<>>
    ELSE repr(StrV(pairs[1][1])) \o <<":", " ">> \o repr(pairs[1][2])
         \o (IF Len(pairs) > 1 THEN <<",", " ">> ELSE <<>>)
         \o ReprPairs(Tail(pairs))

\* str() of a mapping.
StrMapping(pairs) == <<"{">> \o ReprPairs(pairs) \o <<"}">>

\* A mapping as a value: what a conversion without a key receives.
MapV(pairs) == [t |-> "map", i |-> 0, s |-> StrMapping(pairs)]

---------------------------------------------------------------------------
(* The % operator of str, for the conversions s and d, the literal %% and   *)
(* mapping keys %(key).  Flags, widths and precisions are not modelled: no  *)
(* template of the model uses them.  The outcome is the formatted text or   *)
(* the exception that % raises; the errors are found left to right, in the  *)
(* order in which the interpreter finds them.                               *)

Ok(text) == [ok |-> TRUE, val |-> text, err |-> "none"]
Raise(e) == [ok |-> FALSE, val |-> <<>>, err |-> e]

RECURSIVE IndexFrom(_, _, _)
\* The least index i >= from with s[i] = c, or 0.
IndexFrom(s, c, from) ==
    IF from > Len(s) THEN 0
    ELSE IF s[from] = c THEN from ELSE IndexFrom(s, c, from + 1)

RECURSIVE ModScan(_, _, _, _, _)
RECURSIVE ModConv(_, _, _, _, _)

\* The conversion character at f[j], with `rest` the arguments not yet used.
ModConv(f, a, j, rest, acc) ==
    IF j > Len(f) THEN Raise("ValueError")          \* incomplete format
    ELSE IF rest = <<>> THEN Raise("TypeError")     \* not enough arguments
    ELSE IF f[j] = "s"
         THEN ModScan(f, a, j + 1, Tail(rest), acc \o str(Head(rest)))
    ELSE IF f[j] = "d"
         THEN IF Head(rest).t = "int"
              THEN ModScan(f, a, j + 1, Tail(rest), acc \o Dec(Head(rest).i))
              ELSE Raise("TypeError")               \* a number is required
    ELSE Raise("ValueError")                        \* unsupported character

ModScan(f, a, i, rest, acc) ==
    IF i > Len(f)
    THEN IF a.kind # "dict" /\ rest # <<>>
         THEN Raise("TypeError")                    \* not all converted
         ELSE Ok(acc)
    ELSE IF f[i] # "%" THEN ModScan(f, a, i + 1, rest, acc \o <<f[i]>>)
    ELSE IF i + 1 > Len(f) THEN Raise("ValueError") \* incomplete format
    ELSE IF f[i + 1] = "%" THEN ModScan(f, a, i + 2, rest, acc \o <<"%">>)
    ELSE IF f[i + 1] = "("
         THEN IF a.kind # "dict" THEN Raise("TypeError") \* requires a mapping
              ELSE LET close == IndexFrom(f, ")", i + 2)
                       key == SubSeq(f, i + 2, close - 1)
                   IN  IF close = 0 THEN Raise("ValueError")
                       ELSE IF ~HasKey(a.pairs, key) THEN Raise("KeyError")
                       ELSE ModConv(f, a, close + 1,
                                    <<GetItem(a.pairs, key)>>, acc)
    ELSE ModConv(f, a, i + 1, rest, acc)

\* msg % args
StrMod(f, a) ==
    ModScan(f, a, 1,
            IF a.kind = "dict" THEN <<MapV(a.pairs)>> ELSE a.items,
            <<>>)

---------------------------------------------------------------------------
(* format_message                                                          *)

(* try: '%s' % (record.msg % record.args); except TypeError: record.msg.    *)
(* Any other exception of % leaves the function.                            *)
format_message(rec) ==
    LET r == StrMod(rec.msg, rec.args)
    IN  IF r.ok THEN Ok(r.val)
        ELSE IF r.err = "TypeError" THEN Ok(rec.msg)
        ELSE Raise(r.err)

---------------------------------------------------------------------------
(* GlogFormatter                                                           *)

\* As LEVEL_MAP, with the letters of WARN and ERROR exchanged.
LEVEL_MAP_exchanged(levelno) ==
    CASE levelno = FATAL -> "F"
      [] levelno = ERROR -> "W"
      [] levelno = WARN -> "E"
      [] levelno = INFO -> "I"
      [] levelno = DEBUG -> "D"
      [] OTHER -> "?"

\* GlogFormatter.LEVEL_MAP, with '?' for a level that is no key of it.
LEVEL_MAP(levelno) ==
    CASE levelno = FATAL -> "F"
      [] levelno = ERROR -> "E"
      [] levelno = WARN -> "W"
      [] levelno = INFO -> "I"
      [] levelno = DEBUG -> "D"
      [] OTHER -> "?"

\* The SGR sequence ESC [ <code> m that termcolor writes.
Sgr(code) == <<"ESC", "[">> \o Dec(code) \o <<"m">>

\* termcolor.colored(text, color, on_color): codes first, the reset last.
colored(text, codes) ==
    LET RECURSIVE Pre(_)
        Pre(cs) == IF cs = <<>> THEN <<>> ELSE Sgr(Head(cs)) \o Pre(Tail(cs))
    IN  Pre(codes) \o text \o Sgr(0)

(* GlogFormatter.LEVEL_COLOR: green (32) on red (41), red (31), yellow      *)
(* (33), blue (34), grey (30); the identity for a level that is no key.     *)
LEVEL_COLOR(levelno, text) ==
    CASE levelno = FATAL -> colored(text, <<41, 32>>)
      [] levelno = ERROR -> colored(text, <<31>>)
      [] levelno = WARN -> colored(text, <<33>>)
      [] levelno = INFO -> colored(text, <<34>>)
      [] levelno = DEBUG -> colored(text, <<30>>)
      [] OTHER -> text

(* time.localtime, for the zone UTC and a time at or after the epoch: the   *)
(* calendar fields of a count of seconds (days to civil date).              *)
localtime(sec) ==
    LET days == sec \div 86400
        rem == sec % 86400
        z == days + 719468
        era == z \div 146097
        doe == z - era * 146097
        yoe == (doe - doe \div 1460 + doe \div 36524 - doe \div 146096) \div 365
        doy == doe - (365 * yoe + yoe \div 4 - yoe \div 100)
        mp == (5 * doy + 2) \div 153
    IN  [tm_mon |-> IF mp < 10 THEN mp + 3 ELSE mp - 9,
         tm_mday |-> doy - (153 * mp + 2) \div 5 + 1,
         tm_hour |-> rem \div 3600,
         tm_min |-> (rem % 3600) \div 60,
         tm_sec |-> rem % 60]

(* record.created is whole seconds (sec) and a fraction in units of         *)
(* 10^-7 s (frac).  (created - int(created)) * 1e6 is frac / 10, and %06d   *)
(* truncates it to an integer.                                              *)
date_usec(created) == created.frac \div 10

\* The prefix that format writes before the message, "] " included.
Prefix(rec) ==
    LET date == localtime(rec.created.sec)
    IN  <<LEVEL_MAP(rec.levelno)>>
        \o PadDec(2, date.tm_mon) \o PadDec(2, date.tm_mday) \o <<" ">>
        \o PadDec(2, date.tm_hour) \o <<":">> \o PadDec(2, date.tm_min)
        \o <<":">> \o PadDec(2, date.tm_sec)
        \o <<".">> \o PadDec(6, date_usec(rec.created)) \o <<" ">>
        \o (IF rec.process # None THEN str(rec.process)
            ELSE <<"?", "?", "?", "?", "?">>)
        \o <<" ">> \o rec.filename \o <<":">> \o Dec(rec.lineno)
        \o <<"]", " ">>

(* LogRecord.getMessage: msg % args when there are args, unless the         *)
(* attribute was replaced by a function returning a fixed text.             *)
getMessage(rec) ==
    IF rec.getMessage.fixed THEN Ok(rec.getMessage.text)
    ELSE IF rec.args.kind = "tuple" /\ rec.args.items = <<>> THEN Ok(rec.msg)
    ELSE StrMod(rec.msg, rec.args)

(* GlogFormatter.format.  The outcome is the line and the record as format  *)
(* leaves it: record.getMessage is replaced by a function returning the     *)
(* line, and logging.Formatter.format returns what that function returns.   *)
(* An exception of format_message leaves format before the replacement.     *)
format(rec) ==
    LET m == format_message(rec)
        record_message == Prefix(rec) \o LEVEL_COLOR(rec.levelno, m.val)
        after == [rec EXCEPT !.getMessage =
                     [fixed |-> TRUE, text |-> record_message]]
    IN  IF ~m.ok THEN [ok |-> FALSE, val |-> <<>>, err |-> m.err, rec |-> rec]
        ELSE [ok |-> TRUE, val |-> getMessage(after).val, err |-> "none",
              rec |-> after]

---------------------------------------------------------------------------
(* GLOG_PREFIX_REGEX, matched as re.match does: anchored at the start.      *)

\* [name[0] for name in _level_names.values()]
level_letters == {"D", "I", "W", "E", "F"}

\* [a-zA-Z<_]
FileHead == LetterSet \cup {"<", "_"}

\* [\w._<>-]
FileTail == WordSet \cup {".", "_", "<", ">", "-"}

At(s, i) == IF i >= 1 /\ i <= Len(s) THEN s[i] ELSE "EOF"

RECURSIVE Run(_, _, _)
\* The index after the longest run of characters of `set` that starts at i.
Run(s, i, set) == IF At(s, i) \in set THEN Run(s, i + 1, set) ELSE i

NoMatch ==
    [matched |-> FALSE, severity |-> <<>>, month |-> <<>>, day |-> <<>>,
     hour |-> <<>>, minute |-> <<>>, second |-> <<>>, microsecond |-> <<>>,
     process_id |-> <<>>, filename |-> <<>>, line |-> <<>>, end |-> 0]

(* Every repetition of the pattern is followed by a character outside its   *)
(* class, so the greedy match is the only one.  `end` is the index after    *)
(* the match.                                                               *)
GLOG_PREFIX_REGEX(s) ==
    LET sp == Run(s, 22, SpaceSet)              \* \s+
        pd == IF At(s, sp) = "-" THEN sp + 1 ELSE sp
        pe == Run(s, pd, DigitSet)              \* -?\d+
        fe == Run(s, pe + 2, FileTail)          \* [\w._<>-]+
        le == Run(s, fe + 1, DigitSet)          \* \d+
    IN  IF /\ At(s, 1) \in level_letters
           /\ \A i \in {2, 3, 4, 5, 7, 8, 10, 11, 13, 14} : At(s, i) \in DigitSet
           /\ At(s, 6) \in SpaceSet
           /\ At(s, 9) = ":" /\ At(s, 12) = ":" /\ At(s, 15) = "."
           /\ \A i \in 16..21 : At(s, i) \in DigitSet
           /\ sp > 22
           /\ pe > pd
           /\ At(s, pe) \in SpaceSet
           /\ At(s, pe + 1) \in FileHead
           /\ fe > pe + 2
           /\ At(s, fe) = ":"
           /\ le > fe + 1
           /\ At(s, le) = "]"
           /\ At(s, le + 1) \in SpaceSet
        THEN [matched |-> TRUE,
              severity |-> SubSeq(s, 1, 1),
              month |-> SubSeq(s, 2, 3), day |-> SubSeq(s, 4, 5),
              hour |-> SubSeq(s, 7, 8), minute |-> SubSeq(s, 10, 11),
              second |-> SubSeq(s, 13, 14),
              microsecond |-> SubSeq(s, 16, 21),
              process_id |-> SubSeq(s, sp, pe - 1),
              filename |-> SubSeq(s, pe + 1, fe - 1),
              line |-> SubSeq(s, fe + 1, le - 1),
              end |-> le + 2]
        ELSE NoMatch

---------------------------------------------------------------------------
(* The records, templates and arguments the formatter is applied to.       *)

\* Tuples of at most MaxArgs values are the positional arguments.
MaxArgs == 2

\* A level that is no key of LEVEL_MAP and has no name.
CustomLevel == INFO + 5

ArgValues == {IntV(1), StrV(<<"x", "]">>)}

ArgTuples ==
    UNION {[1..n -> ArgValues] : n \in 0..MaxArgs}

SampleArgs ==
    {Tuple(t) : t \in ArgTuples}
    \cup {Mapping(<<<<<<"k">>, IntV(1)>>>>), Mapping(<<<<<<"a">>, IntV(1)>>>>),
          Single(None)}

SampleMsgs ==
    {<<"o", "k">>,
     <<"%", "s", "-", "%", "s">>,
     <<"n", "=", "%", "d">>,
     <<"%", "y">>,
     <<"a", "[", "0", "]">>,
     <<"%", "(", "k", ")", "s">>,
     <<"1", "0", "0", "%">>,
     <<"%", "%">>}

SampleFiles ==
    {<<"m", "a", "i", "n", ".", "p", "y">>,
     <<"<", "s", "t", "d", "i", "n", ">">>,
     <<"1", ".", "p", "y">>,
     <<"x", "]", ".", "p", "y">>}

\* 2023-11-14 22:13:20.1234567 and 2000-02-29 23:59:59.0000050
SampleTimes ==
    {[sec |-> 1700000000, frac |-> 1234567],
     [sec |-> 951868799, frac |-> 50]}

\* record.process: None when logging.logProcesses is off.
SampleProcesses == {None, IntV(12345)}

SampleLines == {120}

DefaultGetMessage == [fixed |-> FALSE, text |-> <<>>]

LogRecord(levelno, created, process, pathname, lineno, msg, args) ==
    [levelno |-> levelno, created |-> created, process |-> process,
     pathname |-> pathname, filename |-> basename(pathname),
     lineno |-> lineno, msg |-> msg, args |-> args,
     getMessage |-> DefaultGetMessage]

Records ==
    {LogRecord(l, c, p, f, n, m, a) :
        l \in Levels \cup {CustomLevel}, c \in SampleTimes,
        p \in SampleProcesses, f \in SampleFiles, n \in SampleLines,
        m \in SampleMsgs, a \in SampleArgs}

NoResult(rec) ==
    [op |-> "none", before |-> rec, ok |-> TRUE, val |-> <<>>, err |-> "none"]

Unparsed == [done |-> FALSE, line |-> <<>>, err |-> "none", m |-> NoMatch]

---------------------------------------------------------------------------
(* The logger, its handler and the events of a call.                       *)

\* time.time() and os.getpid() when a record is made.
Now == [sec |-> 1700000000, frac |-> 1234567]
Pid == IntV(7)

NoArgs == Tuple(<<>>)

\* logger.makeRecord(name, level, fn, lno, msg, args, exc_info)
makeRecord(levelno, fn, lno, msg, args) ==
    LogRecord(levelno, Now, Pid, fn, lno, msg, args)

(* What a call does, in order: "handle" is handler.handle(record), "raise"  *)
(* and "return" end the call.                                               *)
Handle(rec) ==
    [e |-> "handle", rec |-> rec, exc |-> "none", payload |-> None]
Raised(exc, payload) ==
    [e |-> "raise", rec |-> makeRecord(NOTSET, <<>>, 0, <<>>, NoArgs),
     exc |-> exc, payload |-> payload]
Returned == [Raised("none", None) EXCEPT !.e = "return"]

\* A stack frame as traceback.extract_stack() gives it.
Frame(file, line, func, text) ==
    [file |-> file, line |-> line, func |-> func, text |-> text]

AppFile == <<"/", "a", "p", "p", "/", "m", "a", "i", "n", ".", "p",
             "y">>
LibFile == <<"/", "l", "i", "b", "/", "c", "o", "l", "o", "r", "e",
             "d", "_", "g", "l", "o", "g", ".", "p", "y">>

(* The call stack of the program that uses the module: the frame of the     *)
(* module level and the frames of the functions it calls, d frames.         *)
CallerFrame(i) ==
    Frame(AppFile, 10 * i, <<"f">> \o Dec(i), <<"g", "(", ")">>)

CallerStack(d) == [i \in 1..d |-> CallerFrame(i)]

\* As isEnabledFor, with a strict comparison.
isEnabledFor_strict(threshold, levelno) == levelno > threshold

\* Logger.isEnabledFor on the root logger, whose effective level is its own.
isEnabledFor(threshold, levelno) == levelno >= threshold

(* Logger.callHandlers for the one handler of the root logger: the handler  *)
(* handles the record when the record's level is at least the handler's.    *)
callHandlers(rec) ==
    IF rec.levelno >= NOTSET THEN <<Handle(rec)>> ELSE <<>>

(* logging.log(level, msg, *args) and its aliases, called at `frame`, with  *)
(* `threshold` the root logger's level: the records handled.                *)
log(threshold, levelno, msg, args, frame) ==
    IF isEnabledFor(threshold, levelno)
    THEN callHandlers(makeRecord(levelno, frame.file, frame.line, msg, args))
    ELSE <<>>

LevelSetMsg == 
    <<"L", "o", "g", " ", "l", "e", "v", "e", "l", " ", "s", "e",
      "t", " ", "t", "o", " ", "%", "s">>

\* The frame of setLevel at its call of logger.debug.
SetLevelFrame ==
    Frame(LibFile, 66, <<"s", "e", "t", "L", "e", "v", "e", "l">>,
          <<"l", "o", "g">>)

\* As setLevel, with the confirmation logged before the level is set.
setLevel_log_first(before, newlevel) ==
    [level |-> newlevel,
     events |-> log(before, DEBUG, LevelSetMsg,
                    Tuple(<<IntV(newlevel)>>), SetLevelFrame) \o <<Returned>>]

(* setLevel: logger.setLevel(newlevel), then logger.debug(...) under the    *)
(* new level; `before` is the level that the call replaces.                 *)
setLevel(before, newlevel) ==
    [level |-> newlevel,
     events |-> log(newlevel, DEBUG, LevelSetMsg,
                    Tuple(<<IntV(newlevel)>>), SetLevelFrame) \o <<Returned>>]

---------------------------------------------------------------------------
(* The check helpers.                                                      *)

\* class FailedCheckException(AssertionError)
FailedCheckException == [name |-> "FailedCheckException",
                         base |-> "AssertionError"]

RECURSIVE format_stacktrace(_)
\* "\t%s:%d\t%s" % (basename(f[0]) + "::" + f[2], f[1], f[3]) per frame.
format_stacktrace(stack) ==
    IF stack = <<>> THEN <<>>
    ELSE LET f == Head(stack)
         IN  <<<<"TAB">> \o basename(f.file) \o <<":", ":">> \o f.func
               \o <<":">> \o Dec(f.line) \o <<"TAB">> \o f.text>>
             \o format_stacktrace(Tail(stack))

BannerMsg == 
    <<"C", "h", "e", "c", "k", " ", "f", "a", "i", "l", "e", "d",
      " ", "h", "e", "r", "e", ":">>

RECURSIVE HandleLines(_, _, _)
\* The loop of check_failed over stacktrace_lines.
HandleLines(lines, filename, line_num) ==
    IF lines = <<>> THEN <<>>
    ELSE <<Handle(makeRecord(DEBUG, filename, line_num, Head(lines),
                             Single(None)))>>
         \o HandleLines(Tail(lines), filename, line_num)

\* The frame of check_failed at its call of traceback.extract_stack().
CheckFailedFrame ==
    Frame(LibFile, 136, 
          <<"c", "h", "e", "c", "k", "_", "f", "a", "i", "l", "e",
            "d">>, <<"s", "t", "a", "c", "k">>)

(* As check_failed, with its records sent through the logger, which drops   *)
(* those below the threshold.                                               *)
check_failed_via_logger(message, outer) ==
    LET threshold == level
        full == outer \o <<CheckFailedFrame>>
        stack == SubSeq(full, 1, Len(full) - 2)
        site == stack[Len(stack)]
        lines == format_stacktrace(stack)
    IN  IF stack = <<>> THEN <<Raised("IndexError", None)>>
        ELSE log(threshold, FATAL, message.s, Single(None), site)
             \o log(threshold, DEBUG, BannerMsg, Single(None), site)
             \o (IF isEnabledFor(threshold, DEBUG)
                 THEN HandleLines(lines, site.file, site.line) ELSE <<>>)
             \o <<Raised(FailedCheckException.name, message)>>

(* check_failed(message), called with the frames `outer` below it on the    *)
(* stack.  extract_stack() ends with the frame of check_failed itself;      *)
(* stack[0:-2] drops it and the frame below it; stack[-1] of an empty       *)
(* stack raises IndexError before anything is logged.                       *)
check_failed(message, outer) ==
    LET full == outer \o <<CheckFailedFrame>>
        stack == SubSeq(full, 1, Len(full) - 2)
        stacktrace_lines == format_stacktrace(stack)
        filename == stack[Len(stack)].file
        line_num == stack[Len(stack)].line
    IN  IF stack = <<>> THEN <<Raised("IndexError", None)>>
        ELSE <<Handle(makeRecord(FATAL, filename, line_num, message.s,
                                 Single(None))),
               Handle(makeRecord(DEBUG, filename, line_num, BannerMsg,
                                 Single(None)))>>
             \o HandleLines(stacktrace_lines, filename, line_num)
             \o <<Raised(FailedCheckException.name, message)>>

\* "Check failed: "
CheckFailedPrefix ==
    <<"C", "h", "e", "c", "k", " ", "f", "a", "i", "l", "e", "d",
      ":", " ">>

\* "Check failed."
CheckFailedDot ==
    <<"C", "h", "e", "c", "k", " ", "f", "a", "i", "l", "e", "d",
      ".">>

\* "Check failed: Object is None."
ObjectIsNone ==
    <<"C", "h", "e", "c", "k", " ", "f", "a", "i", "l", "e", "d",
      ":", " ", "O", "b", "j", "e", "c", "t", " ", "i", "s", " ",
      "N", "o", "n", "e", ".">>

\* The frame of a check helper at its call of check_failed.
HelperFrame(name, line) ==
    Frame(LibFile, line, name, <<"c", "a", "l", "l">>)

\* "Check failed: %s <op> %s" % (str(obj1), str(obj2))
DefaultMessage(op, obj1, obj2) ==
    StrV(StrMod(CheckFailedPrefix \o <<"%", "s", " ">> \o op
                    \o <<" ", "%", "s">>,
                Tuple(<<StrV(str(obj1)), StrV(str(obj2))>>)).val)

\* if not condition: message defaults to "Check failed."
check(condition, message, callers) ==
    IF ~Truthy(condition)
    THEN check_failed(
             IF message = None THEN StrV(CheckFailedDot)
             ELSE message,
             callers
             \o <<HelperFrame(<<"c", "h", "e", "c", "k">>,
                              164)>>)
    ELSE <<Returned>>

\* if obj1 != obj2
check_eq(obj1, obj2, message, callers) ==
    IF obj1 # obj2
    THEN check_failed(
             IF message = None THEN DefaultMessage(<<"!", "=">>, obj1, obj2)
             ELSE message,
             callers
             \o <<HelperFrame(<<"c", "h", "e", "c", "k", "_", "e", "q">>,
                              172)>>)
    ELSE <<Returned>>

\* if obj1 == obj2
check_ne(obj1, obj2, message, callers) ==
    IF obj1 = obj2
    THEN check_failed(
             IF message = None THEN DefaultMessage(<<"=", "=">>, obj1, obj2)
             ELSE message,
             callers
             \o <<HelperFrame(<<"c", "h", "e", "c", "k", "_", "n", "e">>,
                              180)>>)
    ELSE <<Returned>>

\* As check_le, with the default message of check_gt.
check_le_wrong_text(obj1, obj2, message, callers) ==
    IF obj1.i > obj2.i
    THEN check_failed(
             IF message = None THEN DefaultMessage(<<"<", "=">>, obj1, obj2)
             ELSE message,
             callers
             \o <<HelperFrame(<<"c", "h", "e", "c", "k", "_", "l", "e">>,
                              188)>>)
    ELSE <<Returned>>

\* if obj1 > obj2
check_le(obj1, obj2, message, callers) ==
    IF obj1.i > obj2.i
    THEN check_failed(
             IF message = None THEN DefaultMessage(<<">">>, obj1, obj2)
             ELSE message,
             callers
             \o <<HelperFrame(<<"c", "h", "e", "c", "k", "_", "l", "e">>,
                              188)>>)
    ELSE <<Returned>>

\* if obj1 < obj2
check_ge(obj1, obj2, message, callers) ==
    IF obj1.i < obj2.i
    THEN check_failed(
             IF message = None THEN DefaultMessage(<<"<">>, obj1, obj2)
             ELSE message,
             callers
             \o <<HelperFrame(<<"c", "h", "e", "c", "k", "_", "g", "e">>,
                              196)>>)
    ELSE <<Returned>>

\* if obj1 >= obj2
check_lt(obj1, obj2, message, callers) ==
    IF obj1.i >= obj2.i
    THEN check_failed(
             IF message = None THEN DefaultMessage(<<">", "=">>, obj1, obj2)
             ELSE message,
             callers
             \o <<HelperFrame(<<"c", "h", "e", "c", "k", "_", "l", "t">>,
                              204)>>)
    ELSE <<Returned>>

\* if obj1 <= obj2
check_gt(obj1, obj2, message, callers) ==
    IF obj1.i <= obj2.i
    THEN check_failed(
             IF message = None THEN DefaultMessage(<<"<", "=">>, obj1, obj2)
             ELSE message,
             callers
             \o <<HelperFrame(<<"c", "h", "e", "c", "k", "_", "g", "t">>,
                              212)>>)
    ELSE <<Returned>>

\* As check_notnone, with `if not obj` for `if obj is None`.
check_notnone_falsy(obj, message, callers) ==
    IF ~Truthy(obj)
    THEN check_failed(
             IF message = None THEN StrV(ObjectIsNone)
             ELSE message,
             callers
             \o <<HelperFrame(<<"c", "h", "e", "c", "k", "_", "n", "o",
                                "t", "n", "o", "n", "e">>,
                              220)>>)
    ELSE <<Returned>>

\* if obj is None
check_notnone(obj, message, callers) ==
    IF obj = None
    THEN check_failed(
             IF message = None THEN StrV(ObjectIsNone)
             ELSE message,
             callers
             \o <<HelperFrame(<<"c", "h", "e", "c", "k", "_", "n", "o",
                                "t", "n", "o", "n", "e">>,
                              220)>>)
    ELSE <<Returned>>

---------------------------------------------------------------------------
(* The inputs of the calls.                                                *)

Ints == {IntV(n) : n \in 0..MaxVal}

\* Operands of check_eq and check_ne: any values.
EqOperands == Ints \cup {None}

\* Operands of the ordering checks: values that the order compares.
OrdOperands == Ints

Conditions == {IntV(0), IntV(1), None, StrV(<<>>), StrV(<<"x">>)}

Objects == {None, IntV(0), IntV(1), StrV(<<>>)}

\* The message argument: absent (None), empty, or a text.
Messages == {None, StrV(<<>>), StrV(<<"b", "o", "o", "m">>)}

\* Template and arguments of an emission.
Emissions ==
    {[msg |-> <<"o", "k">>, args |-> NoArgs],
     [msg |-> <<"n", "=", "%", "d">>, args |-> Tuple(<<IntV(1)>>)]}

\* setLevel(logging.INFO) at the module level, the level being WARNING.
ImportState == setLevel(WARN, INFO)

\* That call.
ImportCall ==
    [op |-> "setLevel", a |-> IntV(INFO), b |-> None, msg |-> None,
     depth |-> 1, thr |-> WARN]

DefaultRecord ==
    makeRecord(INFO, AppFile, 10, <<"o", "k">>, NoArgs)

---------------------------------------------------------------------------
(* The state after `import colored_glog`, and the calls of its interface.  *)

Init ==
    /\ level = ImportState.level
    /\ last = ImportCall
    /\ trace = ImportState.events
    /\ record = DefaultRecord
    /\ result = NoResult(DefaultRecord)
    /\ parsed = Unparsed

Called(op, a, b, msg, depth) ==
    [op |-> op, a |-> a, b |-> b, msg |-> msg, depth |-> depth, thr |-> level]

SetLevel ==
    \E newlevel \in Levels :
        /\ level' = setLevel(level, newlevel).level
        /\ trace' = setLevel(level, newlevel).events
        /\ last' = Called("setLevel", IntV(newlevel), None, None, 1)
        /\ UNCHANGED <<record, result, parsed>>

\* What an emission entry point does when called at the module level.
Emit(levelno, em) ==
    log(level, levelno, em.msg, em.args, CallerFrame(1)) \o <<Returned>>

\* debug = logging.debug
Debug ==
    \E em \in Emissions :
        /\ last' = Called("debug", IntV(DEBUG), None, StrV(em.msg), 1)
        /\ trace' = Emit(DEBUG, em)
        /\ UNCHANGED <<level, record, result, parsed>>

\* info = logging.info
Info ==
    \E em \in Emissions :
        /\ last' = Called("info", IntV(INFO), None, StrV(em.msg), 1)
        /\ trace' = Emit(INFO, em)
        /\ UNCHANGED <<level, record, result, parsed>>

\* warning = logging.warning
Warning ==
    \E em \in Emissions :
        /\ last' = Called("warning", IntV(WARN), None, StrV(em.msg), 1)
        /\ trace' = Emit(WARN, em)
        /\ UNCHANGED <<level, record, result, parsed>>

\* warn = logging.warning
Warn ==
    \E em \in Emissions :
        /\ last' = Called("warn", IntV(WARN), None, StrV(em.msg), 1)
        /\ trace' = Emit(WARN, em)
        /\ UNCHANGED <<level, record, result, parsed>>

\* error = logging.error
Error ==
    \E em \in Emissions :
        /\ last' = Called("error", IntV(ERROR), None, StrV(em.msg), 1)
        /\ trace' = Emit(ERROR, em)
        /\ UNCHANGED <<level, record, result, parsed>>

\* fatal = logging.fatal
Fatal ==
    \E em \in Emissions :
        /\ last' = Called("fatal", IntV(FATAL), None, StrV(em.msg), 1)
        /\ trace' = Emit(FATAL, em)
        /\ UNCHANGED <<level, record, result, parsed>>

\* log = logging.log
Log ==
    \E levelno \in Levels \cup {CustomLevel}, em \in Emissions :
        /\ last' = Called("log", IntV(levelno), None, StrV(em.msg), 1)
        /\ trace' = Emit(levelno, em)
        /\ UNCHANGED <<level, record, result, parsed>>

Check ==
    \E c \in Conditions, m \in Messages, d \in 1..MaxDepth :
        /\ last' = Called("check", c, None, m, d)
        /\ trace' = check(c, m, CallerStack(d))
        /\ UNCHANGED <<level, record, result, parsed>>

CheckEq ==
    \E a \in EqOperands, b \in EqOperands, m \in Messages,
       d \in 1..MaxDepth :
        /\ last' = Called("check_eq", a, b, m, d)
        /\ trace' = check_eq(a, b, m, CallerStack(d))
        /\ UNCHANGED <<level, record, result, parsed>>

CheckNe ==
    \E a \in EqOperands, b \in EqOperands, m \in Messages,
       d \in 1..MaxDepth :
        /\ last' = Called("check_ne", a, b, m, d)
        /\ trace' = check_ne(a, b, m, CallerStack(d))
        /\ UNCHANGED <<level, record, result, parsed>>

CheckLe ==
    \E a \in OrdOperands, b \in OrdOperands, m \in Messages,
       d \in 1..MaxDepth :
        /\ last' = Called("check_le", a, b, m, d)
        /\ trace' = check_le(a, b, m, CallerStack(d))
        /\ UNCHANGED <<level, record, result, parsed>>

CheckGe ==
    \E a \in OrdOperands, b \in OrdOperands, m \in Messages,
       d \in 1..MaxDepth :
        /\ last' = Called("check_ge", a, b, m, d)
        /\ trace' = check_ge(a, b, m, CallerStack(d))
        /\ UNCHANGED <<level, record, result, parsed>>

CheckLt ==
    \E a \in OrdOperands, b \in OrdOperands, m \in Messages,
       d \in 1..MaxDepth :
        /\ last' = Called("check_lt", a, b, m, d)
        /\ trace' = check_lt(a, b, m, CallerStack(d))
        /\ UNCHANGED <<level, record, result, parsed>>

CheckGt ==
    \E a \in OrdOperands, b \in OrdOperands, m \in Messages,
       d \in 1..MaxDepth :
        /\ last' = Called("check_gt", a, b, m, d)
        /\ trace' = check_gt(a, b, m, CallerStack(d))
        /\ UNCHANGED <<level, record, result, parsed>>

CheckNotNone ==
    \E o \in Objects, m \in Messages, d \in 1..MaxDepth :
        /\ last' = Called("check_notnone", o, None, m, d)
        /\ trace' = check_notnone(o, m, CallerStack(d))
        /\ UNCHANGED <<level, record, result, parsed>>

\* check_failed called by the program itself, not by a helper.
CheckFailed ==
    \E m \in Messages \ {None}, d \in 1..MaxDepth :
        /\ last' = Called("check_failed", None, None, m, d)
        /\ trace' = check_failed(m, CallerStack(d))
        /\ UNCHANGED <<level, record, result, parsed>>

Next ==
    \/ SetLevel
    \/ Debug
    \/ Info
    \/ Warning
    \/ Warn
    \/ Error
    \/ Fatal
    \/ Log
    \/ Check
    \/ CheckEq
    \/ CheckNe
    \/ CheckLe
    \/ CheckGe
    \/ CheckLt
    \/ CheckGt
    \/ CheckNotNone
    \/ CheckFailed

Spec == Init /\ [][Next]_vars

---------------------------------------------------------------------------
(* The formatter applied to a record: format_message, format, and           *)
(* GLOG_PREFIX_REGEX matched against the line that format returned.         *)

InitFormat ==
    /\ level = ImportState.level
    /\ last = ImportCall
    /\ trace = ImportState.events
    /\ record \in Records
    /\ result = NoResult(record)
    /\ parsed = Unparsed

FormatMessage ==
    /\ result' = [op |-> "format_message", before |-> record,
                  ok |-> format_message(record).ok,
                  val |-> format_message(record).val,
                  err |-> format_message(record).err]
    /\ parsed' = Unparsed
    /\ UNCHANGED <<level, last, trace, record>>

Format ==
    /\ result' = [op |-> "format", before |-> record,
                  ok |-> format(record).ok,
                  val |-> format(record).val,
                  err |-> format(record).err]
    /\ record' = format(record).rec
    /\ parsed' = Unparsed
    /\ UNCHANGED <<level, last, trace>>

(* re.match(GLOG_PREFIX_REGEX, line) for the line format returned.  The     *)
(* pattern begins with a line break and blanks before its (?x): an          *)
(* interpreter that wants global flags at the start of the pattern          *)
(* (Python 3.11 and later) refuses to compile it, an earlier one accepts    *)
(* it.                                                                      *)
Match ==
    \E accepted \in BOOLEAN :
        /\ result.op = "format"
        /\ result.ok
        /\ ~parsed.done
        /\ parsed' = [done |-> TRUE, line |-> result.val,
                      err |-> IF accepted THEN "none" ELSE "re.error",
                      m |-> IF accepted THEN GLOG_PREFIX_REGEX(result.val)
                            ELSE NoMatch]
        /\ UNCHANGED <<level, last, trace, record, result>>

NextFormat ==
    \/ FormatMessage
    \/ Format
    \/ Match

SpecFormat == InitFormat /\ [][NextFormat]_vars

---------------------------------------------------------------------------
(* What the claims speak of.                                               *)

HelperOps ==
    {"check", "check_eq", "check_ne", "check_le", "check_ge", "check_lt",
     "check_gt", "check_notnone"}

EmitOps == {"debug", "info", "warning", "warn", "error", "fatal", "log"}

\* The condition under which the last call's check is said to fail.
FailsWhen ==
    CASE last.op = "check" -> ~Truthy(last.a)
      [] last.op = "check_eq" -> last.a # last.b
      [] last.op = "check_ne" -> last.a = last.b
      [] last.op = "check_le" -> last.a.i > last.b.i
      [] last.op = "check_ge" -> last.a.i < last.b.i
      [] last.op = "check_lt" -> last.a.i >= last.b.i
      [] last.op = "check_gt" -> last.a.i <= last.b.i
      [] last.op = "check_notnone" -> last.a = None
      [] OTHER -> last.op = "check_failed"

\* The operator that the default message of a comparing helper names.
SaidOperator ==
    CASE last.op = "check_eq" -> <<"!", "=">>
      [] last.op = "check_ne" -> <<"=", "=">>
      [] last.op = "check_le" -> <<">">>
      [] last.op = "check_ge" -> <<"<">>
      [] last.op = "check_lt" -> <<">", "=">>
      [] last.op = "check_gt" -> <<"<", "=">>
      [] OTHER -> <<>>

\* The message a failed check of the last call is said to carry.
SaidMessage ==
    IF last.msg # None THEN last.msg
    ELSE IF last.op = "check" THEN StrV(CheckFailedDot)
    ELSE IF last.op = "check_notnone" THEN StrV(ObjectIsNone)
    ELSE StrV(CheckFailedPrefix \o str(last.a) \o <<" ">> \o SaidOperator
              \o <<" ">> \o str(last.b))

TraceEnd == trace[Len(trace)]

RaisedFailedCheck ==
    /\ TraceEnd.e = "raise"
    /\ TraceEnd.exc = "FailedCheckException"

\* The severity of the last call, an emission.
SaidSeverity ==
    CASE last.op = "debug" -> DEBUG
      [] last.op = "info" -> INFO
      [] last.op \in {"warning", "warn"} -> WARN
      [] last.op = "error" -> ERROR
      [] last.op = "fatal" -> FATAL
      [] OTHER -> last.a.i

\* The code location that invoked the check of the last call.
InvokingFrame == CallerFrame(last.depth)

---------------------------------------------------------------------------
(* C1: each check helper fails exactly when its condition holds (check:     *)
(* the condition is false; check_eq: a != b; check_ne: a == b; check_le:    *)
(* a > b; check_ge: a < b; check_lt: a >= b; check_gt: a <= b;              *)
(* check_notnone: obj is None) and otherwise returns normally, with no      *)
(* record handled and nothing raised.                                       *)
C1_FailsExactlyWhen ==
    last.op \in HelperOps =>
        IF FailsWhen THEN RaisedFailedCheck ELSE trace = <<Returned>>

\* check_notnone(0) returned normally.
C1_Witness ==
    /\ last.op = "check_notnone"
    /\ last.a = IntV(0)
    /\ trace = <<Returned>>

(* C2: when a check fails, whatever the logger's threshold, the handler     *)
(* receives exactly one CRITICAL record with the failure message, then      *)
(* exactly one DEBUG record 'Check failed here:', then exactly one DEBUG    *)
(* record per captured stack frame in stack order, and only then is the     *)
(* failure raised; nothing is handled after the raise.                      *)
C2_LoggedThenRaised ==
    (last.op \in HelperOps /\ FailsWhen) =>
        LET d == last.depth
            lines == format_stacktrace(CallerStack(d))
        IN  /\ Len(trace) = d + 3
            /\ \A i \in 1..(d + 2) : trace[i].e = "handle"
            /\ trace[1].rec.levelno = FATAL
            /\ trace[1].rec.msg = SaidMessage.s
            /\ trace[2].rec.levelno = DEBUG
            /\ trace[2].rec.msg = BannerMsg
            /\ \A i \in 1..d : /\ trace[2 + i].rec.levelno = DEBUG
                               /\ trace[2 + i].rec.msg = lines[i]
            /\ trace[d + 3].e = "raise"

\* A check failed two frames deep while the threshold was FATAL.
C2_Witness ==
    /\ last.op = "check_eq"
    /\ FailsWhen
    /\ last.depth = 2
    /\ level = FATAL
    /\ Len(trace) = 5
    /\ trace[5].e = "raise"

(* C3: a failed check ends by raising FailedCheckException, a subclass of   *)
(* AssertionError, whose payload is the caller's message when that is not   *)
(* None and otherwise the helper's default message.                         *)
C3_RaisesWithMessage ==
    (last.op \in HelperOps /\ FailsWhen) =>
        /\ RaisedFailedCheck
        /\ FailedCheckException.name = TraceEnd.exc
        /\ FailedCheckException.base = "AssertionError"
        /\ TraceEnd.payload = SaidMessage

\* check_le(1, 0) raised with 'Check failed: 1 > 0'.
C3_Witness ==
    /\ last.op = "check_le"
    /\ last.a = IntV(1)
    /\ last.b = IntV(0)
    /\ last.msg = None
    /\ TraceEnd.e = "raise"
    /\ TraceEnd.payload
           = StrV(CheckFailedPrefix \o <<"1", " ", ">", " ", "0">>)

(* C5: with threshold L set by the last setLevel, an emission through a     *)
(* severity entry point hands exactly one record to the sink when its       *)
(* severity is >= L and nothing when it is < L, and leaves L as it is.      *)
C5_ThresholdFilters ==
    last.op \in EmitOps =>
        /\ level = last.thr
        /\ IF SaidSeverity >= level
           THEN /\ Len(trace) = 2
                /\ trace[1].e = "handle"
                /\ trace[1].rec.levelno = SaidSeverity
                /\ trace[1].rec.msg = last.msg.s
                /\ trace[2] = Returned
           ELSE trace = <<Returned>>

\* After setLevel(WARN), info() wrote nothing.
C5_Witness ==
    /\ last.op = "info"
    /\ level = WARN
    /\ trace = <<Returned>>

(* C6, as amended: setLevel(newlevel) makes newlevel the threshold and      *)
(* then logs its confirmation at debug level under the new threshold: the   *)
(* sink receives exactly one confirmation record when newlevel <= DEBUG and *)
(* nothing when newlevel is INFO, WARN, ERROR or FATAL.                     *)
C6_ConfirmsWhenDebugEnabled ==
    last.op = "setLevel" =>
        /\ level = last.a.i
        /\ IF last.a.i <= DEBUG
           THEN /\ Len(trace) = 2
                /\ trace[1].e = "handle"
                /\ trace[1].rec.levelno = DEBUG
                /\ trace[1].rec.msg = LevelSetMsg
                /\ trace[1].rec.args = Tuple(<<last.a>>)
                /\ trace[2] = Returned
           ELSE trace = <<Returned>>

\* setLevel(DEBUG), called under another threshold, wrote its confirmation.
C6_Witness ==
    /\ last.op = "setLevel"
    /\ last.a = IntV(DEBUG)
    /\ last.thr = ERROR
    /\ level = DEBUG
    /\ Len(trace) = 2

(* C6, as stated: every setLevel(newlevel) makes newlevel the threshold     *)
(* and then itself emits exactly one debug-level confirmation line through  *)
(* the sink.                                                                *)
C6_AlwaysConfirms ==
    last.op = "setLevel" =>
        /\ level = last.a.i
        /\ Len(trace) = 2
        /\ trace[1].e = "handle"
        /\ trace[1].rec.levelno = DEBUG
        /\ trace[1].rec.msg = LevelSetMsg

(* C10: for a failed check through any public entry point, check_failed     *)
(* itself included, at any depth >= 1: the captured stack is the call       *)
(* stack without its two innermost frames and is not empty, its last frame  *)
(* is the code location that invoked the check, every record is tagged      *)
(* with that frame's file and line, and no stack-trace line is of a frame   *)
(* of the helper or of check_failed.                                        *)
C10_ReportsInvokingFrame ==
    (last.op \in HelperOps \cup {"check_failed"} /\ FailsWhen) =>
        LET handled == SelectSeq(trace, LAMBDA ev : ev.e = "handle")
            n == Len(handled)
            fullDepth == last.depth + (IF last.op \in HelperOps THEN 2 ELSE 1)
            libName == basename(LibFile)
        IN  /\ n - 2 = fullDepth - 2
            /\ n - 2 >= 1
            /\ handled[n].rec.msg = format_stacktrace(<<InvokingFrame>>)[1]
            /\ \A i \in 1..n :
                   /\ handled[i].rec.pathname = InvokingFrame.file
                   /\ handled[i].rec.lineno = InvokingFrame.line
            /\ \A i \in 3..n :
                   SubSeq(handled[i].rec.msg, 2, 1 + Len(libName)) # libName

---------------------------------------------------------------------------
(* Claims about the formatter, under SpecFormat.                            *)

\* The letter said to stand for a valid severity.
SaidLetter(levelno) ==
    CASE levelno = DEBUG -> "D"
      [] levelno = INFO -> "I"
      [] levelno = WARN -> "W"
      [] levelno = ERROR -> "E"
      [] OTHER -> "F"

(* C4: format_message never raises: when the substitution fails for any     *)
(* reason it returns the raw template, otherwise the substituted text, and  *)
(* no substitution error reaches the caller of format_message or format.    *)
C4_NeverRaises ==
    /\ result.op = "format_message" =>
           /\ result.ok
           /\ result.val =
                  IF StrMod(result.before.msg, result.before.args).ok
                  THEN StrMod(result.before.msg, result.before.args).val
                  ELSE result.before.msg
    /\ result.op = "format" => result.ok

(* C7: for every record that format rendered, GLOG_PREFIX_REGEX matches     *)
(* the line at its start, and the captured groups are what format wrote     *)
(* into the prefix.                                                         *)
C7_RoundTrip ==
    (parsed.done /\ record.levelno \in Levels) =>
        LET date == localtime(record.created.sec)
            m == parsed.m
        IN  /\ m.matched
            /\ m.severity = <<SaidLetter(record.levelno)>>
            /\ m.month = PadDec(2, date.tm_mon)
            /\ m.day = PadDec(2, date.tm_mday)
            /\ m.hour = PadDec(2, date.tm_hour)
            /\ m.minute = PadDec(2, date.tm_min)
            /\ m.second = PadDec(2, date.tm_sec)
            /\ m.microsecond = PadDec(6, date_usec(record.created))
            /\ m.process_id = (IF record.process = None
                               THEN <<"?", "?", "?", "?", "?">>
                               ELSE Dec(record.process.i))
            /\ m.filename = record.filename
            /\ m.line = Dec(record.lineno)

(* C8, as amended: a line that format returns for a valid severity starts   *)
(* with exactly the letter of that severity, and contains one ']' that      *)
(* ends the prefix besides those of the source filename and of the          *)
(* substituted message: exactly one when neither of them contains ']'.      *)
C8_LetterAndDelimiter ==
    (result.op = "format" /\ result.ok /\ result.before.levelno \in Levels) =>
        /\ result.val[1] = SaidLetter(result.before.levelno)
        /\ result.val[2] \in DigitSet
        /\ CountChar(result.val, "]") =
               1 + CountChar(result.before.filename, "]")
                 + CountChar(format_message(result.before).val, "]")

\* A WARN record whose message has a ']' was rendered with two of them.
C8_Witness ==
    /\ result.op = "format"
    /\ result.ok
    /\ result.before.levelno = WARN
    /\ result.before.msg = <<"a", "[", "0", "]">>
    /\ result.val[1] = "W"
    /\ CountChar(result.val, "]") = 2

(* C8, as stated: the line starts with the letter of the severity and       *)
(* contains exactly one ']' character.                                      *)
C8_ExactlyOneBracket ==
    (result.op = "format" /\ result.ok /\ result.before.levelno \in Levels) =>
        /\ result.val[1] = SaidLetter(result.before.levelno)
        /\ CountChar(result.val, "]") = 1

(* C9: format has no side effect: every field and method of the record is   *)
(* the same after format(record) as before, and nothing is written to a     *)
(* sink.                                                                    *)
C9_RecordUnchanged ==
    result.op = "format" =>
        /\ record = result.before
        /\ trace = ImportState.events

=============================================================================
